---- MODULE Spec2Model ----
(***************************************************************************)
(* Model of the sidecar-injector webhook (webhook/webhook.go):             *)
(*   - the admission decision and patch generation (requiredMutation,      *)
(*     insertContainer/insertVolume/insertImagePullSecrets,                *)
(*     annotationUpdate, createpatch, mutation, webhookMutation);          *)
(*   - the Run event loop (debounce timer, filesystem events, watcher      *)
(*     errors, health ticks, stop) and its reload of the shared            *)
(*     SidecarConfig / TLSConfig;                                          *)
(*   - a request served concurrently with the loop by the HTTP server.     *)
(*                                                                         *)
(* Strings that the code lower-cases are sequences of one-character        *)
(* strings, so that strings.ToLower is computed character by character.    *)
(***************************************************************************)
EXTENDS Integers, Sequences, FiniteSets, TLC

\* ------------------------------------------------------------------ bounds
\* longest list of containers / volumes / pull secrets in a sidecar config
MaxSidecar == 2
\* longest existing list of containers / volumes / pull secrets in a pod
MaxExisting == 1
\* number of filesystem events the environment delivers in one behaviour
MaxEvents == 3
\* the same, while requests are served concurrently
MaxServeEvents == 2
\* the same, in the behaviours checked for progress
MaxLiveEvents == 2

\* ----------------------------------------------------------------- strings
UpperChars == <<"A","B","C","D","E","F","G","H","I","J","K","L","M",
                "N","O","P","Q","R","S","T","U","V","W","X","Y","Z">>
LowerChars == <<"a","b","c","d","e","f","g","h","i","j","k","l","m",
                "n","o","p","q","r","s","t","u","v","w","x","y","z">>

\* unicode.ToLower on one character of the modelled alphabet
ToLowerChar(c) ==
  IF \E i \in 1..Len(UpperChars) : UpperChars[i] = c
    THEN LowerChars[CHOOSE i \in 1..Len(UpperChars) : UpperChars[i] = c]
    ELSE c

\* strings.ToLower
ToLower(s) == [i \in 1..Len(s) |-> ToLowerChar(s[i])]

webhookInjectKey == "sidecar-injector-mesher.io/inject"
webhookStatusKey == "sidecar-injector-mesher.io/status"

\* the literals the code compares against
StrY == <<"y">>
StrYes == <<"y","e","s">>
StrInjected == <<"i","n","j","e","c","t","e","d">>
\* Go's zero string
EmptyStr == <<>>

\* ------------------------------------------------------------- annotations
\* A Go map[string]string is either nil or a function from its keys.
NilMap == [isNil |-> TRUE, m |-> <<>>]
MakeMap(f) == [isNil |-> FALSE, m |-> f]

\* m[key] in Go: the zero string when the map is nil or the key is absent
MapGet(a, key) ==
  IF a.isNil THEN EmptyStr
  ELSE IF key \in DOMAIN a.m THEN a.m[key] ELSE EmptyStr

\* requiredMutation with the status comparison done on the raw string
requiredMutationNoFold(annotations) ==
  LET status == MapGet(annotations, webhookStatusKey)
      inject == ToLower(MapGet(annotations, webhookInjectKey))
  IN IF status = StrInjected THEN FALSE
     ELSE inject = StrY \/ inject = StrYes

\* requiredMutation without the "y" case
requiredMutationOnlyYes(annotations) ==
  LET status == MapGet(annotations, webhookStatusKey)
      inject == ToLower(MapGet(annotations, webhookInjectKey))
  IN IF ToLower(status) = StrInjected THEN FALSE
     ELSE inject = StrYes

\* requiredMutation(metaData): the policy decision from the annotations
requiredMutation(annotations) ==
  LET status == MapGet(annotations, webhookStatusKey)
      inject == ToLower(MapGet(annotations, webhookInjectKey))
  IN IF ToLower(status) = StrInjected THEN FALSE
     ELSE inject = StrY \/ inject = StrYes

\* --------------------------------------------------------- patch operations
\* The value of an operation is an interface{}: a list of entries, one
\* entry, a map with one key, or a string.
ListValue(l) == [kind |-> "list", v |-> l]
SingleValue(e) == [kind |-> "single", v |-> e]
MapValue(k, s) == [kind |-> "map", v |-> <<k, s>>]
ScalarValue(s) == [kind |-> "scalar", v |-> s]

operation(op, path, value) == [Operation |-> op, Path |-> path, Value |-> value]

\* the value of the operation emitted for the first entry of an empty
\* destination, were it the whole incoming list
FirstValueWholeList(add, i) == ListValue(add)

\* the value of the operation emitted for the first entry of an empty
\* destination: a one-element list holding that entry
FirstValue(add, i) == ListValue(<<add[i]>>)

\* the range loop shared by insertContainer, insertVolume and
\* insertImagePullSecrets: f is the "destination is empty" flag
RECURSIVE insertLoop(_, _, _, _)
insertLoop(add, i, f, path) ==
  IF i > Len(add) THEN <<>>
  ELSE IF f
    THEN <<operation("add", path, FirstValue(add, i))>>
           \o insertLoop(add, i + 1, FALSE, path)
    ELSE <<operation("add", path \o "/-", SingleValue(add[i]))>>
           \o insertLoop(add, i + 1, f, path)

\* insertContainer that takes every destination for empty
insertContainerIgnoreDest(dest, add, path) == insertLoop(add, 1, TRUE, path)

insertContainer(dest, add, path) == insertLoop(add, 1, Len(dest) = 0, path)
insertVolume(dest, add, path) == insertLoop(add, 1, Len(dest) = 0, path)

\* insertImagePullSecrets that takes every destination for empty
insertImagePullSecretsBaseOnly(dest, add, path) == insertLoop(add, 1, TRUE, path)

insertImagePullSecrets(dest, add, path) == insertLoop(add, 1, Len(dest) = 0, path)

\* annotationUpdate that always replaces
RECURSIVE annotationUpdateAlwaysReplace(_, _)
annotationUpdateAlwaysReplace(dest, add) ==
  IF Len(add) = 0 THEN <<>>
  ELSE <<operation("replace", "/metadata/annotations/" \o add[1][1],
                   ScalarValue(add[1][2]))>>
         \o annotationUpdateAlwaysReplace(dest, Tail(add))

\* annotationUpdate(dest, add): add is the sequence of <<key, value>> pairs
\* in the order the range statement visits them
RECURSIVE annotationUpdate(_, _)
annotationUpdate(dest, add) ==
  IF Len(add) = 0 THEN <<>>
  ELSE LET key == add[1][1]
           value == add[1][2]
       IN IF dest.isNil \/ MapGet(dest, key) = EmptyStr
          THEN <<operation("add", "/metadata/annotations", MapValue(key, value))>>
                 \o annotationUpdate(MakeMap(<<>>), Tail(add))
          ELSE <<operation("replace", "/metadata/annotations/" \o key,
                           ScalarValue(value))>>
                 \o annotationUpdate(dest, Tail(add))

\* createpatch(pod, sidecarConfig, annotations): the operations that
\* json.Marshal serialises
createpatch(pod, sidecarConfig, annotations) ==
  insertContainer(pod.Containers, sidecarConfig.Containers, "/spec/containers")
    \o insertVolume(pod.Volumes, sidecarConfig.Volumes, "/spec/volumes")
    \o insertImagePullSecrets(pod.ImagePullSecrets, sidecarConfig.ImagePullSecret,
                              "/spec/imagePullSecrets")
    \o annotationUpdate(pod.Annotations, annotations)


\* ------------------------------------------------------------ program data
\* One container, volume or pull-secret reference.  defaulted records
\* whether the scheme's defaulting functions have filled its implicit fields.
Entry(n) == [name |-> n, defaulted |-> FALSE]
EntryList(prefix, n) == [i \in 1..n |-> Entry(prefix \o ToString(i))]

\* a Config as yaml.Unmarshal builds it from a valid file
Config(nc, nv, ns) ==
  [Containers |-> EntryList("sc", nc),
   Volumes |-> EntryList("sv", nv),
   ImagePullSecret |-> EntryList("ss", ns)]

\* what a watched file can hold; valid = FALSE stands for an unreadable or
\* unparsable file
ValidFile(d) == [valid |-> TRUE, data |-> d]
InvalidConfigFile == [valid |-> FALSE, data |-> Config(0, 0, 0)]
InvalidCertFile == [valid |-> FALSE, data |-> "none"]
LoopConfigs == {Config(1, 1, 1), Config(2, 0, 1)}
LoopCerts == {"certA", "certB"}
EngineConfigs ==
  {Config(nc, nv, ns) : nc \in 0..MaxSidecar, nv \in 0..MaxSidecar, ns \in 0..MaxSidecar}

\* ---------------------------------------------------------------- requests
InjectValues ==
  {EmptyStr, <<"y">>, <<"Y">>, <<"y","e","s">>, <<"Y","e","S">>,
   <<"n","o">>, <<"y","e","s","s">>}
StatusValues ==
  {EmptyStr, StrInjected, <<"I","n","j","e","c","t","e","d">>,
   <<"I","N","J","E","C","T","E","D">>,
   <<"p","e","n","d","i","n","g">>}

AnnotationMaps ==
  {NilMap}
    \cup {MakeMap(<<>>)}
    \cup {MakeMap([k \in {webhookInjectKey} |-> i]) : i \in InjectValues}
    \cup {MakeMap([k \in {webhookStatusKey} |-> s]) : s \in StatusValues}
    \cup {MakeMap([k \in {webhookInjectKey, webhookStatusKey} |->
                     IF k = webhookInjectKey THEN i ELSE s]) :
            i \in InjectValues, s \in StatusValues}

Pod(ann, nc, nv, ns) ==
  [Annotations |-> ann,
   Containers |-> EntryList("pc", nc),
   Volumes |-> EntryList("pv", nv),
   ImagePullSecrets |-> EntryList("ps", ns)]

EnginePods ==
  {Pod(a, nc, nv, ns) : a \in AnnotationMaps,
     nc \in 0..MaxExisting, nv \in 0..MaxExisting, ns \in 0..MaxExisting}

UIDs == {"uid-1", "uid-2"}
ZeroPod == Pod(NilMap, 0, 0, 0)

\* An HTTP request.  body: "empty", "garbage" (does not decode as an
\* AdmissionReview) or "review"; hasRequest: the review carries a Request;
\* rawOk: Request.Object.Raw unmarshals as a Pod, and then pod is that Pod.
Request(body, ct, hasReq, uid, rawOk, pod) ==
  [body |-> body, contentType |-> ct, hasRequest |-> hasReq, uid |-> uid,
   rawOk |-> rawOk, pod |-> pod]

ZeroRequest == Request("empty", "application/json", FALSE, "", FALSE, ZeroPod)

MalformedRequests ==
  {Request("empty", "application/json", FALSE, "", FALSE, ZeroPod),
   Request("review", "text/plain", TRUE, "uid-1", TRUE, ZeroPod),
   Request("garbage", "application/json", FALSE, "", FALSE, ZeroPod),
   Request("review", "application/json", FALSE, "", FALSE, ZeroPod)}
    \cup {Request("review", "application/json", TRUE, u, FALSE, ZeroPod) : u \in UIDs}

EngineRequests ==
  MalformedRequests
    \cup {Request("review", "application/json", TRUE, u, TRUE, p) :
            u \in UIDs, p \in EnginePods}

InjectPod == Pod(MakeMap([k \in {webhookInjectKey} |-> StrYes]), 1, 0, 0)
LoopRequests ==
  {Request("review", "application/json", TRUE, "uid-1", TRUE, InjectPod),
   Request("review", "application/json", TRUE, "uid-2", TRUE, ZeroPod)}

\* --------------------------------------------------------------- responses
NoOps == [isNil |-> TRUE, ops |-> <<>>]
Ops(o) == [isNil |-> FALSE, ops |-> o]

\* v1beta1.AdmissionResponse; the zero values are "", FALSE, nil
AdmissionResponse(allowed, patch, patchType, message) ==
  [UID |-> "", Allowed |-> allowed, Patch |-> patch, PatchType |-> patchType,
   Message |-> message]
NilResponse == AdmissionResponse(FALSE, NoOps, "", "")

\* what the handler did with the request: nothing yet ("pending"), returned
\* without writing ("dropped"), panicked ("panic"), or wrote an envelope
Outcome(kind, resp) == [kind |-> kind, Response |-> resp]


\* ------------------------------------------------------------------- state
VARIABLES
  \* WebHookServer
  SidecarConfig,   \* wh.SidecarConfig: a pointer, the index of a Config in configs
  TLSConfig,       \* wh.Server.TLSConfig: a pointer, an index in tlsConfigs
  Lock,            \* wh.Lock: "unlocked" or "locked" (write-locked)
  configs,         \* the Config objects allocated so far
  tlsConfigs,      \* the tls.Config objects allocated so far (their certificate)
  \* Run
  runPc,           \* position of the Run loop
  timerChan,       \* "nil", "armed", "ready" (value waiting) or "drained"
  sidecarConfig,   \* Run's local: the Config loaded by this reload
  pair,            \* Run's local: the key pair loaded by this reload
  healthChan,      \* "nil" (no ticker), "waiting" or "ready"
  healthFile,      \* content of p.HealthCheckFile
  watchClosed,     \* wh.Watch.Close() has run
  serverClosed,    \* wh.Server.Close() has run
  \* environment
  cfgFile,         \* content of p.SidecarConfigFile
  certFile,        \* content of p.CertFile / p.KeyFile
  WatchEvent,      \* wh.Watch.Event: events not yet received by the loop
  WatchError,      \* wh.Watch.Error holds an error
  stop,            \* the stop channel is closed
  nEvents,         \* filesystem events delivered so far
  inbound,         \* the request the client sends
  \* one request in the HTTP server
  hPc,             \* position of the handler
  hReq,            \* the request being served
  hCert,           \* the tls.Config the connection was accepted with
  hCfgDefaults,    \* wh.SidecarConfig as read for applyDefaultsWorkaround
  hCfgPatch,       \* wh.SidecarConfig as read for createpatch
  mRequired,       \* requiredMutation's result: "unset", "true" or "false"
  aResponse,       \* webhookMutation's aResponse
  outcome,         \* what the handler did with the request
  \* history
  installed,       \* the <<SidecarConfig, TLSConfig>> pairs installed so far
  burst,           \* modified/created events received since the last reload attempt
  lastBurst,       \* the number of events the last reload attempt answered
  attempts,        \* reload attempts since the last modified/created event
  lastReload,      \* how the last reload attempt ended
  preReload        \* <<SidecarConfig, TLSConfig>> when the last attempt began

whVars == <<SidecarConfig, TLSConfig, Lock, configs, tlsConfigs>>
runVars == <<runPc, timerChan, sidecarConfig, pair, healthChan, healthFile,
             watchClosed, serverClosed>>
envVars == <<cfgFile, certFile, WatchEvent, WatchError, stop, nEvents, inbound>>
handlerVars == <<hPc, hReq, hCert, hCfgDefaults, hCfgPatch, mRequired, aResponse,
                 outcome>>
historyVars == <<installed, burst, lastBurst, attempts, lastReload, preReload>>
vars == <<whVars, runVars, envVars, handlerVars, historyVars>>

\* NewWebhook followed by the start of Run, with the files as they were loaded
InitWith(cfg, cert, health, req) ==
  /\ configs = <<cfg>>
  /\ SidecarConfig = 1
  /\ tlsConfigs = <<cert>>
  /\ TLSConfig = 1
  /\ Lock = "unlocked"
  /\ runPc = "select"
  /\ timerChan = "nil"
  /\ sidecarConfig = 0
  /\ pair = "none"
  /\ healthChan = health
  /\ healthFile = "absent"
  /\ watchClosed = FALSE
  /\ serverClosed = FALSE
  /\ cfgFile = ValidFile(cfg)
  /\ certFile = ValidFile(cert)
  /\ WatchEvent = <<>>
  /\ WatchError = FALSE
  /\ stop = FALSE
  /\ nEvents = 0
  /\ inbound = req
  /\ hPc = "idle"
  /\ hReq = ZeroRequest
  /\ hCert = 0
  /\ hCfgDefaults = 0
  /\ hCfgPatch = 0
  /\ mRequired = "unset"
  /\ aResponse = NilResponse
  /\ outcome = Outcome("pending", NilResponse)
  /\ installed = {<<1, 1>>}
  /\ burst = 0
  /\ lastBurst = 0
  /\ attempts = 0
  /\ lastReload = "none"
  /\ preReload = <<1, 1>>

Init ==
  \E health \in {"nil", "waiting"} :
    InitWith(Config(1, 1, 1), "certA", health, ZeroRequest)


\* ---------------------------------------------------------------- Run loop
\* the state of timerChan after its value has been received, were the
\* timer a ticker
TimerAfterFireTicker == "armed"

\* the state of timerChan after its value has been received: time.After
\* delivers one value, the channel stays set and never delivers again
TimerAfterFire == "drained"

\* event.IsModify() || event.IsCreate(), were every event taken
ArmsTimerAnyEvent(event) == TRUE

\* event.IsModify() || event.IsCreate()
ArmsTimer(event) == event \in {"modify", "create"}

\* timerChan after a modified/created event, were the timer set only while
\* timerChan is nil
TimerAfterEventOnlyFirst(t) == IF t = "nil" THEN "armed" ELSE t

\* timerChan after a modified/created event: timerChan = time.After(...)
\* replaces whatever channel was there by a freshly armed one
TimerAfterEvent(t) == "armed"

\* where the select's stop case goes, were it a break
AfterStopBreak == "select"

\* where the select's stop case goes: return
AfterStop == "returned"

\* where the loop goes after loadConfig: break on error
AfterLoadConfig(ok) == IF ok THEN "loadcert" ELSE "select"

\* where the loop goes after tls.LoadX509KeyPair, were its error ignored
AfterLoadCertNoBreak(ok) == "lock"

\* where the loop goes after tls.LoadX509KeyPair, were its error a return
\* past the deferred calls
AfterLoadCertReturns(ok) == IF ok THEN "lock" ELSE "returned"

\* where the loop goes after tls.LoadX509KeyPair: break on error
AfterLoadCert(ok) == IF ok THEN "lock" ELSE "select"

\* case <-timerChan: receive the timer's value and loadConfig
TimerCase ==
  /\ runPc = "select"
  /\ timerChan = "ready"
  /\ timerChan' = TimerAfterFire
  /\ runPc' = AfterLoadConfig(cfgFile.valid)
  /\ configs' = IF cfgFile.valid THEN Append(configs, cfgFile.data) ELSE configs
  /\ sidecarConfig' = IF cfgFile.valid THEN Len(configs) + 1 ELSE 0
  /\ lastReload' = IF cfgFile.valid THEN "running" ELSE "cfgerr"
  /\ preReload' = <<SidecarConfig, TLSConfig>>
  /\ lastBurst' = burst
  /\ attempts' = attempts + 1
  /\ burst' = 0
  /\ UNCHANGED <<SidecarConfig, TLSConfig, Lock, tlsConfigs, pair, healthChan,
                 healthFile, watchClosed, serverClosed, envVars, handlerVars,
                 installed>>

\* tls.LoadX509KeyPair(p.CertFile, p.KeyFile)
LoadCert ==
  /\ runPc = "loadcert"
  /\ runPc' = AfterLoadCert(certFile.valid)
  /\ pair' = certFile.data
  /\ lastReload' = IF certFile.valid THEN "running" ELSE "certerr"
  /\ UNCHANGED <<whVars, timerChan, sidecarConfig, healthChan, healthFile,
                 watchClosed, serverClosed, envVars, handlerVars, installed,
                 burst, lastBurst, attempts, preReload>>

\* wh.Lock.Lock()
LockStep ==
  /\ runPc = "lock"
  /\ Lock = "unlocked"
  /\ Lock' = "locked"
  /\ runPc' = "setcfg"
  /\ UNCHANGED <<SidecarConfig, TLSConfig, configs, tlsConfigs, timerChan,
                 sidecarConfig, pair, healthChan, healthFile, watchClosed,
                 serverClosed, envVars, handlerVars, historyVars>>

\* wh.SidecarConfig = sidecarConfig
SetConfig ==
  /\ runPc = "setcfg"
  /\ SidecarConfig' = sidecarConfig
  /\ runPc' = "settls"
  /\ UNCHANGED <<TLSConfig, Lock, configs, tlsConfigs, timerChan, sidecarConfig,
                 pair, healthChan, healthFile, watchClosed, serverClosed,
                 envVars, handlerVars, historyVars>>

\* wh.Server.TLSConfig = &tls.Config{Certificates: []tls.Certificate{pair}}
SetTLS ==
  /\ runPc = "settls"
  /\ tlsConfigs' = Append(tlsConfigs, pair)
  /\ TLSConfig' = Len(tlsConfigs) + 1
  /\ runPc' = "unlock"
  /\ installed' = installed \cup {<<SidecarConfig, Len(tlsConfigs) + 1>>}
  /\ lastReload' = "ok"
  /\ UNCHANGED <<SidecarConfig, Lock, configs, timerChan, sidecarConfig, pair,
                 healthChan, healthFile, watchClosed, serverClosed, envVars,
                 handlerVars, burst, lastBurst, attempts, preReload>>

\* wh.Lock.Unlock()
UnlockStep ==
  /\ runPc = "unlock"
  /\ Lock' = "unlocked"
  /\ runPc' = "select"
  /\ UNCHANGED <<SidecarConfig, TLSConfig, configs, tlsConfigs, timerChan,
                 sidecarConfig, pair, healthChan, healthFile, watchClosed,
                 serverClosed, envVars, handlerVars, historyVars>>

\* case event := <-wh.Watch.Event
EventCase ==
  /\ runPc = "select"
  /\ WatchEvent # <<>>
  /\ WatchEvent' = Tail(WatchEvent)
  /\ IF ArmsTimer(Head(WatchEvent))
       THEN /\ timerChan' = TimerAfterEvent(timerChan)
            /\ burst' = burst + 1
            /\ attempts' = 0
       ELSE UNCHANGED <<timerChan, burst, attempts>>
  /\ UNCHANGED <<whVars, runPc, sidecarConfig, pair, healthChan, healthFile,
                 watchClosed, serverClosed, cfgFile, certFile, WatchError, stop,
                 nEvents, inbound, handlerVars, installed, lastBurst, lastReload,
                 preReload>>

\* case err := <-wh.Watch.Error
ErrorCase ==
  /\ runPc = "select"
  /\ WatchError
  /\ WatchError' = FALSE
  /\ UNCHANGED <<whVars, runVars, cfgFile, certFile, WatchEvent, stop, nEvents,
                 inbound,
                 handlerVars, historyVars>>

\* case <-healthChan: ioutil.WriteFile succeeds or fails
HealthCase ==
  /\ runPc = "select"
  /\ healthChan = "ready"
  /\ healthChan' = "waiting"
  /\ \E written \in BOOLEAN :
       healthFile' = IF written THEN "ok" ELSE healthFile
  /\ UNCHANGED <<whVars, runPc, timerChan, sidecarConfig, pair, watchClosed,
                 serverClosed, envVars, handlerVars, historyVars>>

\* case <-stop: return, running the deferred Watch.Close, Server.Close, t.Stop
StopCase ==
  /\ runPc = "select"
  /\ stop
  /\ runPc' = AfterStop
  /\ watchClosed' = (AfterStop = "returned")
  /\ serverClosed' = (AfterStop = "returned")
  /\ UNCHANGED <<whVars, timerChan, sidecarConfig, pair, healthChan, healthFile,
                 envVars, handlerVars, historyVars>>

Run ==
  \/ TimerCase \/ LoadCert \/ LockStep \/ SetConfig \/ SetTLS \/ UnlockStep
  \/ EventCase \/ ErrorCase \/ HealthCase \/ StopCase

\* ------------------------------------------------------------- environment
\* a watched file is written, created, deleted or renamed, and fsnotify
\* queues the event; at most max events are delivered
FsEvent(max) ==
  /\ ~watchClosed
  /\ nEvents < max
  /\ nEvents' = nEvents + 1
  /\ \E kind \in {"modify", "create", "delete", "rename"} :
       /\ WatchEvent' = Append(WatchEvent, kind)
       /\ \/ /\ cfgFile' \in {ValidFile(c) : c \in LoopConfigs} \cup {InvalidConfigFile}
             /\ kind \in {"delete", "rename"} => cfgFile' = InvalidConfigFile
             /\ UNCHANGED certFile
          \/ /\ certFile' \in {ValidFile(c) : c \in LoopCerts} \cup {InvalidCertFile}
             /\ kind \in {"delete", "rename"} => certFile' = InvalidCertFile
             /\ UNCHANGED cfgFile
  /\ UNCHANGED <<whVars, runVars, WatchError, stop, inbound, handlerVars,
                 historyVars>>

\* the timer armed by time.After expires and its channel holds the value
TimerExpires ==
  /\ timerChan = "armed"
  /\ timerChan' = "ready"
  /\ UNCHANGED <<whVars, runPc, sidecarConfig, pair, healthChan, healthFile,
                 watchClosed, serverClosed, envVars, handlerVars, historyVars>>

\* the health ticker ticks
HealthTick ==
  /\ healthChan = "waiting"
  /\ runPc # "returned"
  /\ healthChan' = "ready"
  /\ UNCHANGED <<whVars, runPc, timerChan, sidecarConfig, pair, healthFile,
                 watchClosed, serverClosed, envVars, handlerVars, historyVars>>

\* the watcher reports an internal error
WatcherFails ==
  /\ ~watchClosed
  /\ ~WatchError
  /\ WatchError' = TRUE
  /\ UNCHANGED <<whVars, runVars, cfgFile, certFile, WatchEvent, stop, nEvents,
                 inbound,
                 handlerVars, historyVars>>

\* the stop channel is closed
StopSignal ==
  /\ ~stop
  /\ stop' = TRUE
  /\ UNCHANGED <<whVars, runVars, cfgFile, certFile, WatchEvent, WatchError,
                 nEvents, inbound, handlerVars, historyVars>>

Environment == FsEvent(MaxEvents) \/ TimerExpires \/ HealthTick \/ WatcherFails \/ StopSignal


\* ----------------------------------------------------------------- handler
\* defaulter.Default on a list: the defaulting functions fill the implicit
\* fields of each element in place
DefaultAll(l) == [i \in 1..Len(l) |-> [l[i] EXCEPT !.defaulted = TRUE]]

\* applyDefaultsWorkaround(containers, volumes, secrets): the Pod built
\* around the three slices shares their backing arrays; the scheme has
\* defaulting functions for containers and volumes, none for pull secrets
applyDefaultsWorkaround(cfg) ==
  [cfg EXCEPT !.Containers = DefaultAll(cfg.Containers),
              !.Volumes = DefaultAll(cfg.Volumes)]

\* the response for a failed decode or unmarshal: only Result.Message set
ErrorResponse == AdmissionResponse(FALSE, NoOps, "", "error")

\* mutation's early return when the policy check says no
SkipResponse == AdmissionResponse(TRUE, NoOps, "", "")

\* mutation's final return without Allowed
PatchResponseNotAllowed(ops) == AdmissionResponse(FALSE, Ops(ops), "JSONPatch", "")

\* mutation's final return
PatchResponse(ops) == AdmissionResponse(TRUE, Ops(ops), "JSONPatch", "")

\* the UID of the response in the envelope, were it never copied
ResponseUIDNotCopied(req, resp) == resp.UID

\* the UID of the response in the envelope: copied from the request when
\* the decoded review has one
ResponseUID(req, resp) == IF req.hasRequest THEN req.uid ELSE resp.UID

\* the server accepts a connection (TLS handshake with the current
\* wh.Server.TLSConfig) and reads the client's request
Accept ==
  /\ hPc = "idle"
  /\ ~serverClosed
  /\ hReq' = inbound
  /\ hCert' = TLSConfig
  /\ hPc' = "serve"
  /\ hCfgDefaults' = 0
  /\ hCfgPatch' = 0
  /\ mRequired' = "unset"
  /\ aResponse' = NilResponse
  /\ outcome' = Outcome("pending", NilResponse)
  /\ UNCHANGED <<whVars, runVars, envVars, historyVars>>

\* webhookMutation up to the call of mutation, and mutation up to the
\* policy check
Serve ==
  /\ hPc = "serve"
  /\ IF hReq.body = "empty" \/ hReq.contentType # "application/json"
       THEN /\ hPc' = "idle"
            /\ outcome' = Outcome("dropped", NilResponse)
            /\ UNCHANGED <<aResponse, mRequired>>
     ELSE IF hReq.body = "garbage"
       THEN /\ hPc' = "respond"
            /\ aResponse' = ErrorResponse
            /\ UNCHANGED <<outcome, mRequired>>
     ELSE IF ~hReq.hasRequest
       THEN \* req.Object.Raw with req == nil
            /\ hPc' = "idle"
            /\ outcome' = Outcome("panic", NilResponse)
            /\ UNCHANGED <<aResponse, mRequired>>
     ELSE IF ~hReq.rawOk
       THEN /\ hPc' = "respond"
            /\ aResponse' = ErrorResponse
            /\ UNCHANGED <<outcome, mRequired>>
     ELSE IF ~requiredMutation(hReq.pod.Annotations)
       THEN /\ hPc' = "respond"
            /\ aResponse' = SkipResponse
            /\ mRequired' = "false"
            /\ UNCHANGED outcome
     ELSE /\ hPc' = "defaults"
          /\ mRequired' = "true"
          /\ UNCHANGED <<aResponse, outcome>>
  /\ UNCHANGED <<whVars, runVars, envVars, hReq, hCert, hCfgDefaults, hCfgPatch,
                 historyVars>>

\* applyDefaultsWorkaround(wh.SidecarConfig.Containers, ...)
Defaults ==
  /\ hPc = "defaults"
  /\ hCfgDefaults' = SidecarConfig
  /\ configs' = [configs EXCEPT ![SidecarConfig] = applyDefaultsWorkaround(@)]
  /\ hPc' = "patch"
  /\ UNCHANGED <<SidecarConfig, TLSConfig, Lock, tlsConfigs, runVars, envVars,
                 hReq, hCert, hCfgPatch, mRequired, aResponse, outcome,
                 historyVars>>

\* createpatch(&pod, wh.SidecarConfig, annotations) and the final return
Patch ==
  /\ hPc = "patch"
  /\ hCfgPatch' = SidecarConfig
  /\ aResponse' = PatchResponse(createpatch(hReq.pod, configs[SidecarConfig],
                                            <<<<webhookStatusKey, StrInjected>>>>))
  /\ hPc' = "respond"
  /\ UNCHANGED <<whVars, runVars, envVars, hReq, hCert, hCfgDefaults, mRequired,
                 outcome, historyVars>>

\* the envelope is built, marshalled and written
Respond ==
  /\ hPc = "respond"
  /\ outcome' = Outcome("written",
                        [aResponse EXCEPT !.UID = ResponseUID(hReq, aResponse)])
  /\ hPc' = "idle"
  /\ UNCHANGED <<whVars, runVars, envVars, hReq, hCert, hCfgDefaults, hCfgPatch,
                 mRequired, aResponse, historyVars>>

Handler == Accept \/ Serve \/ Defaults \/ Patch \/ Respond

\* ---------------------------------------------------------- specifications
\* the Run loop and its environment
Next ==
  \/ TimerCase \/ LoadCert \/ LockStep \/ SetConfig \/ SetTLS \/ UnlockStep
  \/ EventCase \/ ErrorCase \/ HealthCase \/ StopCase
  \/ FsEvent(MaxEvents) \/ TimerExpires \/ HealthTick \/ WatcherFails \/ StopSignal

Spec == Init /\ [][Next]_vars

\* the Run loop and its environment, with the scheduling the runtime
\* gives: a goroutine that can take a step takes it, an armed timer expires,
\* and the select, which chooses at random among the ready cases, does not
\* pass over the stop case for ever
LiveNext ==
  \/ TimerCase \/ LoadCert \/ LockStep \/ SetConfig \/ SetTLS \/ UnlockStep
  \/ EventCase \/ ErrorCase \/ HealthCase \/ StopCase
  \/ FsEvent(MaxLiveEvents) \/ TimerExpires \/ HealthTick \/ WatcherFails
  \/ StopSignal

LiveSpec ==
  /\ Init
  /\ [][LiveNext]_vars
  /\ WF_vars(TimerCase) /\ WF_vars(LoadCert) /\ WF_vars(LockStep)
  /\ WF_vars(SetConfig) /\ WF_vars(SetTLS) /\ WF_vars(UnlockStep)
  /\ WF_vars(EventCase) /\ WF_vars(TimerExpires)
  /\ SF_vars(StopCase)

\* requests served by the HTTP server while the Run loop reloads
ServeInit ==
  \E req \in LoopRequests : InitWith(Config(1, 1, 1), "certA", "nil", req)

ServeNext ==
  \/ TimerCase \/ LoadCert \/ LockStep \/ SetConfig \/ SetTLS \/ UnlockStep
  \/ EventCase \/ StopCase
  \/ FsEvent(MaxServeEvents) \/ TimerExpires \/ StopSignal
  \/ Accept \/ Serve \/ Defaults \/ Patch \/ Respond

ServeSpec == ServeInit /\ [][ServeNext]_vars

\* the handler alone, on every request and every sidecar config of the
\* bounded sets, with no reload
EngineInit ==
  \E cfg \in EngineConfigs, req \in EngineRequests :
    InitWith(cfg, "certA", "nil", req)

EngineNext == Accept \/ Serve \/ Defaults \/ Patch \/ Respond

EngineSpec == EngineInit /\ [][EngineNext]_vars


\* ================================================================== claims

\* ------------------------------------------------------------------ C1
\* the <<SidecarConfig, TLSConfig>> pairs a request has observed: the
\* tls.Config of its connection with each SidecarConfig it has read
ObservedPairs ==
  {<<c, hCert>> : c \in {hCfgDefaults, hCfgPatch} \ {0}}

\* C1: no reader observes a mixed pair - every (SidecarConfig, TLS
\* credential) pair a request observes while the Run loop reloads is the
\* pair installed by one single reload, or the initial pair.
C1_NoMixedPair == ObservedPairs \subseteq installed

\* ------------------------------------------------------------------ C2
\* C2: a reload in which the config load or the certificate load fails
\* leaves the active SidecarConfig and TLSConfig as they were when the
\* debounce timer fired, takes no lock, and the loop is back at its select
\* (or has returned since, on the stop signal).
C2_FailedReloadKeepsState ==
  lastReload \in {"cfgerr", "certerr"} =>
    /\ <<SidecarConfig, TLSConfig>> = preReload
    /\ Lock = "unlocked"
    /\ runPc \in {"select", "returned"}
    /\ runPc = "returned" => stop

\* a reload whose config loaded and whose certificate did not, with the
\* loaded Config discarded and the loop running
C2_Witness ==
  /\ lastReload = "certerr"
  /\ sidecarConfig # 0
  /\ sidecarConfig # SidecarConfig
  /\ runPc = "select"

\* ------------------------------------------------------------------ C3
\* the debounce timer is pending
TimerPending == timerChan \in {"armed", "ready"}

\* an unanswered burst has its timer pending and no attempt yet; once the
\* attempt is made the timer is spent and the attempt is the only one
DebounceState ==
  /\ burst >= 1 => TimerPending /\ attempts = 0
  /\ burst = 0 => ~TimerPending /\ attempts <= 1
  /\ attempts = 1 => lastBurst >= 1

\* C3: a burst of k >= 1 modified/created events produces exactly one
\* reload attempt: every such event received (re-)arms the timer, an
\* attempt is made only for a burst of at least one event, and after the
\* attempt there is no further one until a new event is received.
C3_Debounce ==
  [][/\ DebounceState'
     /\ (Len(WatchEvent') < Len(WatchEvent) /\ ArmsTimer(Head(WatchEvent)))
          => timerChan' = "armed"
     /\ attempts' > attempts => burst >= 1 /\ timerChan = "ready"
     /\ (attempts = 1 /\ burst' = 0) => attempts' = 1]_vars

\* a burst of at least two events answered by one reload attempt
C3_Witness == lastBurst >= 2 /\ attempts = 1 /\ burst = 0


\* ------------------------------------------------- the claims' vocabulary
\* upper-casing of one character, for case-insensitive comparison
ToUpperChar(c) ==
  IF \E i \in 1..Len(LowerChars) : LowerChars[i] = c
    THEN UpperChars[CHOOSE i \in 1..Len(LowerChars) : LowerChars[i] = c]
    ELSE c

\* a and b are equal up to the case of their letters
EqualFold(a, b) ==
  /\ Len(a) = Len(b)
  /\ \A i \in 1..Len(a) : ToUpperChar(a[i]) = ToUpperChar(b[i])

\* the annotation key is set on the pod
IsSet(pod, key) == ~pod.Annotations.isNil /\ key \in DOMAIN pod.Annotations.m

InjectIsYes(pod) ==
  /\ IsSet(pod, webhookInjectKey)
  /\ \/ EqualFold(pod.Annotations.m[webhookInjectKey], StrY)
     \/ EqualFold(pod.Annotations.m[webhookInjectKey], StrYes)

StatusIsInjected(pod) ==
  /\ IsSet(pod, webhookStatusKey)
  /\ EqualFold(pod.Annotations.m[webhookStatusKey], StrInjected)

\* the request reaches the policy check: it decodes and its pod unmarshals
WellFormed(req) ==
  /\ req.body = "review"
  /\ req.contentType = "application/json"
  /\ req.hasRequest
  /\ req.rawOk

\* the handler has written the envelope of the request
Written == hPc = "idle" /\ outcome.kind = "written"

\* the written response carries a patch
WrittenPatch == Written /\ ~outcome.Response.Patch.isNil

\* the operations of the written patch for the list at base
OpsAt(base) ==
  SelectSeq(outcome.Response.Patch.ops,
            LAMBDA o : o.Path = base \/ o.Path = base \o "/-")

\* the three injected lists: base path, the pod's list, the sidecar's list
\* as createpatch read it
Targets ==
  {<<"/spec/containers", hReq.pod.Containers, configs[hCfgPatch].Containers>>,
   <<"/spec/volumes", hReq.pod.Volumes, configs[hCfgPatch].Volumes>>,
   <<"/spec/imagePullSecrets", hReq.pod.ImagePullSecrets,
     configs[hCfgPatch].ImagePullSecret>>}

\* ------------------------------------------------------------------ C4
\* C4: for every inject annotation (unset or any string) and every status
\* annotation (unset or any string), requiredMutation returns true if and
\* only if inject case-insensitively equals "y" or "yes" and status does
\* not case-insensitively equal "injected".
C4_PolicyCorrect ==
  mRequired # "unset" =>
    (mRequired = "true" <=> (InjectIsYes(hReq.pod) /\ ~StatusIsInjected(hReq.pod)))

\* requiredMutation has said yes to a mixed-case inject with a status set
C4_Witness ==
  /\ mRequired = "true"
  /\ IsSet(hReq.pod, webhookInjectKey)
  /\ hReq.pod.Annotations.m[webhookInjectKey] \notin {StrY, StrYes}
  /\ IsSet(hReq.pod, webhookStatusKey)

\* ------------------------------------------------------------------ C5
\* C5: for a well-formed pod whose status annotation case-insensitively
\* equals "injected", the mutation returns allow=true with no patch and no
\* patch type, whatever the inject annotation and the current SidecarSpec.
C5_Idempotent ==
  (WellFormed(hReq) /\ StatusIsInjected(hReq.pod)) =>
    /\ hPc \notin {"defaults", "patch"}
    /\ hPc = "respond" => aResponse = SkipResponse
    /\ Written =>
         /\ outcome.Response.Allowed
         /\ outcome.Response.Patch.isNil
         /\ outcome.Response.PatchType = ""

\* a pod marked INJECTED in another case, asking for injection, answered
C5_Witness ==
  /\ Written
  /\ WellFormed(hReq)
  /\ StatusIsInjected(hReq.pod)
  /\ hReq.pod.Annotations.m[webhookStatusKey] # StrInjected
  /\ InjectIsYes(hReq.pod)
  /\ Len(configs[SidecarConfig].Containers) >= 1

\* ------------------------------------------------------------------ C6
\* C6 as stated: an empty existing list with n >= 1 sidecar entries gets
\* exactly one operation, an add at the base path whose value is the
\* entire incoming list.
C6_OneAddWholeList ==
  WrittenPatch =>
    \A t \in Targets :
      (Len(t[2]) = 0 /\ Len(t[3]) >= 1) =>
        /\ Len(OpsAt(t[1])) = 1
        /\ OpsAt(t[1])[1].Operation = "add"
        /\ OpsAt(t[1])[1].Path = t[1]
        /\ OpsAt(t[1])[1].Value.kind = "list"
        /\ OpsAt(t[1])[1].Value.v = t[3]

\* C6 amended: an empty existing list with n >= 1 sidecar entries gets
\* exactly n operations: first an add at the base path whose value is a
\* one-element list holding the first entry, then for each further entry,
\* in order, an add at the append path whose value is that single entry.
C6_FirstAddThenAppends ==
  WrittenPatch =>
    \A t \in Targets :
      (Len(t[2]) = 0 /\ Len(t[3]) >= 1) =>
        /\ Len(OpsAt(t[1])) = Len(t[3])
        /\ OpsAt(t[1])[1].Operation = "add"
        /\ OpsAt(t[1])[1].Path = t[1]
        /\ OpsAt(t[1])[1].Value.kind = "list"
        /\ OpsAt(t[1])[1].Value.v = <<t[3][1]>>
        /\ \A i \in 2..Len(t[3]) :
             /\ OpsAt(t[1])[i].Operation = "add"
             /\ OpsAt(t[1])[i].Path = t[1] \o "/-"
             /\ OpsAt(t[1])[i].Value.kind = "single"
             /\ OpsAt(t[1])[i].Value.v = t[3][i]

\* a patch for a pod with no containers from a sidecar with two
C6_Witness ==
  /\ WrittenPatch
  /\ Len(hReq.pod.Containers) = 0
  /\ Len(configs[hCfgPatch].Containers) = 2

\* ------------------------------------------------------------------ C7
\* C7: a non-empty existing list with n sidecar entries gets exactly n
\* operations, each an add at the append path (base path followed by "/-")
\* whose value is a single entry, in the order of the sidecar's entries.
C7_AppendEach ==
  WrittenPatch =>
    \A t \in Targets :
      Len(t[2]) >= 1 =>
        /\ Len(OpsAt(t[1])) = Len(t[3])
        /\ \A i \in 1..Len(t[3]) :
             /\ OpsAt(t[1])[i].Operation = "add"
             /\ OpsAt(t[1])[i].Path = t[1] \o "/-"
             /\ OpsAt(t[1])[i].Value.kind = "single"
             /\ OpsAt(t[1])[i].Value.v = t[3][i]

\* a patch for a pod with one container from a sidecar with two
C7_Witness ==
  /\ WrittenPatch
  /\ Len(hReq.pod.Containers) = 1
  /\ Len(configs[hCfgPatch].Containers) = 2

\* ------------------------------------------------------------------ C8
\* the operations of the written patch on the annotations
AnnotationOps ==
  SelectSeq(outcome.Response.Patch.ops,
            LAMBDA o : \/ o.Path = "/metadata/annotations"
                       \/ o.Path = "/metadata/annotations/" \o webhookStatusKey)

\* C8: for the single status key annotationUpdate emits exactly one
\* operation: an add at /metadata/annotations with the single-key map
\* {status-key: "injected"} when the pod has no annotations map or the
\* status key is absent or empty, and a replace at
\* /metadata/annotations/<status-key> with the scalar value when the status
\* key is present and non-empty.
C8_AnnotationBranch ==
  WrittenPatch =>
    /\ Len(AnnotationOps) = 1
    /\ AnnotationOps[1] = outcome.Response.Patch.ops[Len(outcome.Response.Patch.ops)]
    /\ IF IsSet(hReq.pod, webhookStatusKey)
            /\ hReq.pod.Annotations.m[webhookStatusKey] # EmptyStr
         THEN /\ AnnotationOps[1].Operation = "replace"
              /\ AnnotationOps[1].Path = "/metadata/annotations/" \o webhookStatusKey
              /\ AnnotationOps[1].Value.kind = "scalar"
              /\ AnnotationOps[1].Value.v = StrInjected
         ELSE /\ AnnotationOps[1].Operation = "add"
              /\ AnnotationOps[1].Path = "/metadata/annotations"
              /\ AnnotationOps[1].Value.kind = "map"
              /\ AnnotationOps[1].Value.v = <<webhookStatusKey, StrInjected>>

\* a patch for a pod whose status key is present and non-empty
C8_Witness ==
  /\ WrittenPatch
  /\ IsSet(hReq.pod, webhookStatusKey)
  /\ hReq.pod.Annotations.m[webhookStatusKey] # EmptyStr

\* ------------------------------------------------------------------ C9
\* C9: every response envelope the handler writes carries the UID of the
\* request it answers, on the paths no mutation required, mutation with
\* patch, and target-resource deserialization error.
C9_UIDMirrored ==
  (Written /\ hReq.body = "review" /\ hReq.hasRequest) =>
    outcome.Response.UID = hReq.uid

\* the envelope of a request whose target resource did not unmarshal
C9_Witness ==
  /\ Written
  /\ hReq.hasRequest
  /\ ~hReq.rawOk
  /\ hReq.uid = "uid-2"
  /\ outcome.Response.Message # ""

\* ----------------------------------------------------------------- C10
\* C10: a response carries a patch and the JSON-Patch type marker only
\* when the policy decision says mutation is required; when it is not
\* required the response is allow=true with no patch; and whenever the
\* target resource deserializes the response is allow=true.
C10_PatchOnlyWhenRequired ==
  Written =>
    /\ (~outcome.Response.Patch.isNil \/ outcome.Response.PatchType # "")
         => mRequired = "true"
    /\ mRequired = "false" =>
         /\ outcome.Response.Allowed
         /\ outcome.Response.Patch.isNil
         /\ outcome.Response.PatchType = ""
    /\ WellFormed(hReq) => outcome.Response.Allowed

\* a written response with a patch, for a request that required mutation
C10_Witness ==
  /\ WrittenPatch
  /\ outcome.Response.PatchType = "JSONPatch"
  /\ mRequired = "true"
  /\ outcome.Response.Allowed


\* ----------------------------------------------------------------- C11
\* C11: Run returns only by receiving the stop signal - the step that
\* returns is taken at the select with stop raised and consumes no timer
\* value, event, watcher error or health tick - and whenever Run has
\* returned the serving transport and the watcher have been closed; a
\* failed reload, a watcher error or a failed health write leaves the loop
\* running.
C11_OrderlyShutdown ==
  [][/\ (runPc' = "returned" /\ runPc # "returned") =>
          /\ runPc = "select"
          /\ stop
          /\ timerChan' = timerChan
          /\ WatchEvent' = WatchEvent
          /\ WatchError' = WatchError
          /\ healthChan' = healthChan
          /\ lastReload' = lastReload
     /\ runPc' = "returned" => watchClosed' /\ serverClosed'
     /\ (lastReload' # lastReload /\ lastReload' \in {"cfgerr", "certerr"})
          => runPc' = "select"
     /\ (WatchError /\ ~WatchError') => runPc' = "select"
     /\ (healthChan = "ready" /\ healthChan' = "waiting") => runPc' = "select"]_vars

\* Run has returned, after a failed reload and a failed health write, with
\* a watcher error still unread
C11_Witness ==
  /\ runPc = "returned"
  /\ stop
  /\ watchClosed
  /\ serverClosed
  /\ lastReload = "certerr"
  /\ healthChan = "waiting"
  /\ healthFile = "absent"
  /\ WatchError


\* ----------------------------------------------------------------- C12
\* the handler is done with a request that had a body and the JSON
\* content type
Handled ==
  /\ hPc = "idle"
  /\ outcome.kind # "pending"
  /\ hReq.body # "empty"
  /\ hReq.contentType = "application/json"

\* C12: every request with a non-empty body and the JSON content type ends
\* with a response envelope written and never with a panic - also when the
\* body does not decode, when the decoded review has no request part, and
\* when the raw target resource is malformed; where decoding failed the
\* response has the error message and no patch.
C12_AlwaysResponds ==
  Handled =>
    /\ outcome.kind = "written"
    /\ (hReq.body = "garbage" \/ ~hReq.rawOk) =>
         /\ outcome.Response.Message # ""
         /\ outcome.Response.Patch.isNil


\* ----------------------------------------------------------------- C13
\* C13: once the stop signal has been raised the Run loop eventually
\* returns, even when filesystem events, watcher errors, health ticks and
\* timer fires keep becoming ready together with the stop signal.
C13_StopLeadsToReturn == stop ~> (runPc = "returned")

\* Run has returned while an event, a watcher error, a health tick and a
\* timer value were all ready at its select
C13_Witness ==
  /\ runPc = "returned"
  /\ WatchEvent # <<>>
  /\ WatchError
  /\ healthChan = "ready"
  /\ timerChan = "ready"


\* ----------------------------------------------------------------- C14

\* Run is inside its critical section, holding the write lock
InCriticalSection == runPc \in {"setcfg", "settls", "unlock"}

\* the handler is in the middle of its accesses to the shared state: it has
\* read wh.SidecarConfig for the defaults and will read it for the patch
BuildingResponse == hPc = "patch"

\* the writer's half of the discipline: Run is inside its critical section
\* exactly while the lock is write-locked
WriterHoldsLock == InCriticalSection <=> Lock = "locked"

\* C14: every access to the shared SidecarConfig and TLS pair happens with
\* the single lock held - the reload writes both under the write lock, and
\* a handler holds the read lock while it builds its response - so a
\* handler is never building its response while the reload is inside its
\* critical section, and the shared fields change only under the lock.
C14_LockDiscipline ==
  /\ WriterHoldsLock
  /\ ~(BuildingResponse /\ InCriticalSection)


\* ----------------------------------------------------------------- C15
\* C15: a loaded SidecarSpec is never mutated in place - once a Config
\* object exists no step changes its containers, volumes or pull secrets;
\* the active spec changes only by the reload installing another object,
\* and no step of a request handler writes shared state.
C15_NeverMutatedInPlace ==
  [][/\ \A i \in 1..Len(configs) : configs'[i] = configs[i]
     /\ hPc # "idle" /\ hPc' # hPc => whVars' = whVars]_vars


\* ----------------------------------------------------------------- C16
\* the loop receives an event that is neither modified nor created
ReceivesOtherEvent ==
  /\ WatchEvent # <<>>
  /\ WatchEvent' = Tail(WatchEvent)
  /\ Head(WatchEvent) \notin {"modify", "create"}

\* the loop receives a watcher error
ReceivesWatcherError == WatchError /\ ~WatchError'

\* C16: only modified and created events arm the debounce timer - the step
\* that receives a delete or rename event, or a watcher error, leaves the
\* timer as it was, starts no reload attempt, changes nothing of the shared
\* state and leaves the loop at its select; and a step that arms the timer
\* is the receipt of a modified or created event.
C16_OnlyModifyCreateArm ==
  [][/\ (ReceivesOtherEvent \/ ReceivesWatcherError) =>
          /\ timerChan' = timerChan
          /\ burst' = burst
          /\ attempts' = attempts
          /\ lastReload' = lastReload
          /\ whVars' = whVars
          /\ runPc = "select"
          /\ runPc' = "select"
     /\ (timerChan' = "armed" /\ timerChan # "armed") =>
          /\ WatchEvent # <<>>
          /\ Head(WatchEvent) \in {"modify", "create"}
          /\ WatchEvent' = Tail(WatchEvent)]_vars

\* events were delivered and all received, the config file has been
\* deleted or renamed away, and the timer was never armed
C16_Witness ==
  /\ nEvents >= 2
  /\ WatchEvent = <<>>
  /\ ~cfgFile.valid
  /\ timerChan = "nil"
  /\ lastReload = "none"
  /\ runPc = "select"


\* ----------------------------------------------------------------- C17
\* the entries of containers and volumes in the written patch
PatchedEntries ==
  LET ops == outcome.Response.Patch.ops
      at == {"/spec/containers", "/spec/containers/-", "/spec/volumes",
             "/spec/volumes/-"}
  IN UNION {IF ops[i].Path \notin at THEN {}
            ELSE IF ops[i].Value.kind = "list"
              THEN {ops[i].Value.v[j] : j \in 1..Len(ops[i].Value.v)}
              ELSE {ops[i].Value.v} : i \in 1..Len(ops)}

\* C17: each request is served from one single SidecarConfig version - the
\* Config on which the defaults were applied is the Config from which the
\* patch is built, so every container and volume in a written patch went
\* through the defaulting step.
C17_OneVersionPerRequest ==
  /\ hCfgPatch # 0 => hCfgPatch = hCfgDefaults
  /\ WrittenPatch => \A e \in PatchedEntries : e.defaulted


\* ----------------------------------------------------------------- C18
\* RFC 6902 on one array member of the pod document. A document state is
\* [present, items, error]: whether the member exists, its elements, and
\* whether an operation failed. "add" at the member sets it (replacing an
\* existing one); "add" at member/- appends one element and fails when the
\* member does not exist.
ListDoc(present, items) == [present |-> present, items |-> items, error |-> FALSE]

ApplyListOp(doc, op, base) ==
  IF doc.error THEN doc
  ELSE IF op.Operation # "add" THEN [doc EXCEPT !.error = TRUE]
  ELSE IF op.Path = base
    THEN IF op.Value.kind = "list"
           THEN ListDoc(TRUE, op.Value.v)
           ELSE [doc EXCEPT !.error = TRUE]
    ELSE IF doc.present
           THEN [doc EXCEPT !.items = Append(@, op.Value)]
           ELSE [doc EXCEPT !.error = TRUE]

RECURSIVE ApplyListOps(_, _, _)
ApplyListOps(doc, ops, base) ==
  IF Len(ops) = 0 THEN doc
  ELSE ApplyListOps(ApplyListOp(doc, Head(ops), base), Tail(ops), base)

\* the elements as they stand in the resulting document: an appended value
\* is one element whatever it holds
Elements(doc) ==
  [i \in 1..Len(doc.items) |->
     IF "kind" \in DOMAIN doc.items[i] THEN doc.items[i] ELSE SingleValue(doc.items[i])]

\* the documents a pod list of these elements can come from: an empty list
\* is either an absent member or an empty array
ListDocs(l) ==
  IF Len(l) = 0 THEN {ListDoc(FALSE, <<>>), ListDoc(TRUE, <<>>)}
  ELSE {ListDoc(TRUE, l)}

\* the specified shape: one add with the whole list for an empty
\* destination, one append per entry otherwise
SpecifiedOps(dest, add, base) ==
  IF Len(add) = 0 THEN <<>>
  ELSE IF Len(dest) = 0 THEN <<operation("add", base, ListValue(add))>>
  ELSE [i \in 1..Len(add) |-> operation("add", base \o "/-", SingleValue(add[i]))]

Wrapped(l) == [i \in 1..Len(l) |-> SingleValue(l[i])]

\* C18: applying the emitted operations in order with RFC 6902 semantics
\* yields, for each of containers, volumes and image pull secrets, exactly
\* the pod's existing list followed by the sidecar's list in order, for
\* every existing length and every sidecar length including 0, with no
\* failing operation; the specified one-add-with-whole-list shape yields
\* the same list.
C18_PatchAppliesToConcatenation ==
  WrittenPatch =>
    \A t \in Targets : \A d \in ListDocs(t[2]) :
      LET got == ApplyListOps(d, OpsAt(t[1]), t[1])
          want == ApplyListOps(d, SpecifiedOps(t[2], t[3], t[1]), t[1])
      IN /\ ~got.error
         /\ Elements(got) = Wrapped(t[2] \o t[3])
         /\ ~want.error
         /\ Elements(want) = Elements(got)

\* a patch for a pod without pull secrets and with one volume, from a
\* sidecar with two pull secrets and two volumes
C18_Witness ==
  /\ WrittenPatch
  /\ Len(hReq.pod.ImagePullSecrets) = 0
  /\ Len(configs[hCfgPatch].ImagePullSecret) = 2
  /\ Len(hReq.pod.Volumes) = 1
  /\ Len(configs[hCfgPatch].Volumes) = 2


\* ----------------------------------------------------------------- C19
\* RFC 6902 on the annotations member of the pod document. A document
\* state is [present, m, error]. A JSON pointer names the member key with
\* every "/" of the key written "~1" (RFC 6901); a path holding the key
\* unescaped names a member of a member, which an annotations map of
\* strings does not have.
versionKey == "sidecar-injector-mesher.io/version"
KnownKeys == {webhookInjectKey, webhookStatusKey, versionKey}

EscapedKey(k) ==
  CASE k = webhookInjectKey -> "sidecar-injector-mesher.io~1inject"
    [] k = webhookStatusKey -> "sidecar-injector-mesher.io~1status"
    [] k = versionKey -> "sidecar-injector-mesher.io~1version"

MemberPath(k) == "/metadata/annotations/" \o EscapedKey(k)

AnnDoc(a) == [present |-> ~a.isNil, m |-> a.m, error |-> FALSE]

SetMember(doc, k, s) ==
  [doc EXCEPT !.m = [x \in DOMAIN doc.m \cup {k} |-> IF x = k THEN s ELSE doc.m[x]]]

ApplyAnnotationOp(doc, op) ==
  IF doc.error THEN doc
  ELSE IF op.Path = "/metadata/annotations"
    THEN IF op.Operation = "add" /\ op.Value.kind = "map"
           THEN [present |-> TRUE,
                 m |-> [x \in {op.Value.v[1]} |-> op.Value.v[2]],
                 error |-> FALSE]
           ELSE [doc EXCEPT !.error = TRUE]
    ELSE IF /\ doc.present
            /\ op.Value.kind = "scalar"
            /\ \E k \in KnownKeys :
                 /\ op.Path = MemberPath(k)
                 /\ op.Operation = "replace" => k \in DOMAIN doc.m
           THEN SetMember(doc, CHOOSE k \in KnownKeys : op.Path = MemberPath(k),
                          op.Value.v)
           ELSE [doc EXCEPT !.error = TRUE]

RECURSIVE ApplyAnnotationOps(_, _)
ApplyAnnotationOps(doc, ops) ==
  IF Len(ops) = 0 THEN doc
  ELSE ApplyAnnotationOps(ApplyAnnotationOp(doc, Head(ops)), Tail(ops))

\* the document is doc0 with exactly the pairs of add set
OnlySets(doc0, doc, add) ==
  LET keys == {add[i][1] : i \in 1..Len(add)}
      before == IF doc0.isNil THEN {} ELSE DOMAIN doc0.m
  IN /\ ~doc.error
     /\ \A i \in 1..Len(add) :
          add[i][1] \in DOMAIN doc.m /\ doc.m[add[i][1]] = add[i][2]
     /\ \A k \in before \ keys : k \in DOMAIN doc.m /\ doc.m[k] = doc0.m[k]

\* two keys to set, in either order the range statement may visit them
SeveralKeys ==
  {<<<<webhookStatusKey, StrInjected>>, <<versionKey, <<"1">>>>>>,
   <<<<versionKey, <<"1">>>>, <<webhookStatusKey, StrInjected>>>>}

\* C19: applying the annotation part of the patch with RFC 6902 semantics
\* changes only the keys being set: every annotation the pod carried under
\* another key, the inject annotation included, is still present with its
\* value, and when annotationUpdate is given several keys all of them are
\* present after the patch is applied.
C19_AnnotationFrame ==
  WrittenPatch =>
    /\ OnlySets(hReq.pod.Annotations,
                ApplyAnnotationOps(AnnDoc(hReq.pod.Annotations), AnnotationOps),
                <<<<webhookStatusKey, StrInjected>>>>)
    /\ \A add \in SeveralKeys :
         OnlySets(hReq.pod.Annotations,
                  ApplyAnnotationOps(AnnDoc(hReq.pod.Annotations),
                                     annotationUpdate(hReq.pod.Annotations, add)),
                  add)

\* the part of C19 that holds: the status key itself is set whenever the
\* operation resolves
C19_StatusSetWhenResolved ==
  WrittenPatch =>
    LET got == ApplyAnnotationOps(AnnDoc(hReq.pod.Annotations), AnnotationOps)
    IN ~got.error =>
         /\ webhookStatusKey \in DOMAIN got.m
         /\ got.m[webhookStatusKey] = StrInjected


\* ----------------------------------------------------------------- C20
\* a modified/created event is queued for the loop, or was received and
\* no reload attempt has started since
PendingChange ==
  \/ burst >= 1
  \/ \E i \in 1..Len(WatchEvent) : ArmsTimer(WatchEvent[i])

\* C20: no file change is missed - once events stop arriving, every
\* modified/created event delivered to the loop is followed by the start of
\* a reload attempt after it was received, unless the stop signal is
\* raised; this includes an event that arrives while an earlier reload is
\* in progress or in the instant the debounce timer fires.
C20_NoChangeMissed == PendingChange ~> (~PendingChange \/ stop)

\* two events, each followed by a reload attempt of its own: the second was
\* received after the first attempt had started
C20_Witness ==
  /\ nEvents = 2 /\ WatchEvent = <<>> /\ ~stop
  /\ burst = 0 /\ lastBurst = 1 /\ attempts = 1
  /\ Len(tlsConfigs) = 3

====
